---------------------------- MODULE Spec2Model ----------------------------
(***************************************************************************)
(* A model of the SesameOS3 BLE client (package sesameos3client):          *)
(*   sesame_transport.py  CCMAgent, SSMTransportHandler                    *)
(*   sesame_client.py     SesameClient                                     *)
(* Bytes are naturals in 0..255 and byte strings are sequences of them.    *)
(* The asyncio event loop runs one coroutine at a time, so every action is *)
(* the code between two suspension points of one coroutine.                *)
(***************************************************************************)
EXTENDS Integers, Sequences, FiniteSets, TLC

VARIABLES
    ccm,                \* txrx.ccm: None or the CCMAgent's fields
    buffer,             \* txrx.buffer, the reassembly buffer
    response_listener,  \* client.response_listener: item code -> list of entries
    connected,          \* txrx.client.is_connected with notifications started
    task,               \* the coroutines of the application, by name
    wire,               \* every gatt_write so far: [seg, by]
    devOut,             \* fragments of the device's current message, not yet notified
    dev,                \* the peer: its challenge, its send counter, what it has sent
    completed,          \* history: every call of data_handler, [data, enc]
    dispatched,         \* history: every message that reached _response_handler
    raised,             \* history: exceptions that left notification_handler
    future,             \* the futures of _wait_for_response, by callback identity
    encLog,             \* history: [session, count] of every CCMAgent.encrypt call
    decLog,             \* history: [session, count, ok] of every CCMAgent.decrypt call
    session,            \* history: how many CCMAgent objects were constructed
    frameIn,            \* the input of the codec round trip: [data, enc]
    appLog,             \* history: the application's add_listener and remove_listener calls
    notified,           \* history: every fragment passed to notification_handler
    pending             \* the notification_handler tasks suspended in an async callback

vars == <<ccm, buffer, response_listener, connected, task, wire, devOut, dev,
          completed, dispatched, raised, future, encLog, decLog, session, frameIn, appLog, notified, pending>>

\* Python's None, as the value of txrx.ccm before the first login
None == [none |-> TRUE]

(***************************************************************************)
(* Bounds of the model.                                                    *)
(***************************************************************************)
MaxFrameLen == 41       \* longest message of the codec round trip
MaxSeed == 1            \* the round trip's messages are Pattern(len, seed)
MaxConnects == 2        \* calls of connect()
MaxCalls == 1           \* calls of each command
MaxDevMsgs == 3         \* messages the device sends
MaxWaiters == 3         \* wait_for calls of the dispatcher scenario
MaxDispatches == 2      \* messages dispatched in the dispatcher scenario
MaxSubs == 2            \* add_listener calls of the subscriber scenario
MaxRemoves == 1         \* remove_listener calls of the subscriber scenario
MaxSubWaiters == 1      \* wait_for calls of the subscriber scenario
MaxRetries == 1         \* calls of a command after it has timed out
MaxExtra == 2           \* bytes of the item-14 message after the random code
MaxInbound == 3         \* messages of the peer in the reassembly scenario
MaxFrags == 4           \* fragments of the fragment-stream scenario
MaxAsyncSubs == 1       \* add_listener calls with an async callback
MaxPlainSubs == 1       \* add_listener calls with a plain callback, async scenario
MaxAsyncMsgs == 2       \* messages of the peer in the async scenario

(***************************************************************************)
(* Program constants.                                                      *)
(***************************************************************************)
ChunkLen == 19
TagLen == 4
CounterLen == 8
DigestLen == 16

(***************************************************************************)
(* Byte-string helpers (Python's bytes operations).                        *)
(***************************************************************************)
Min(a, b) == IF a < b THEN a ELSE b
Max(a, b) == IF a > b THEN a ELSE b

\* s[a:b] for 0 <= a, 0 <= b
Slice(s, a, b) == SubSeq(s, a + 1, Min(b, Len(s)))

\* s[a:]
SliceFrom(s, a) == SubSeq(s, a + 1, Len(s))

\* s[:-n] and s[-n:] for n > 0
DropLast(s, n) == SubSeq(s, 1, Len(s) - n)
TakeLast(s, n) == SubSeq(s, Max(1, Len(s) - n + 1), Len(s))

RECURSIVE SumSeq(_)
SumSeq(s) == IF s = <<>> THEN 0 ELSE s[1] + SumSeq(Tail(s))

\* a position-weighted checksum, so that a permutation of bytes changes it
RECURSIVE WSumTo(_, _)
WSumTo(s, n) == IF n = 0 THEN 0 ELSE n * s[n] + WSumTo(s, n - 1)
WSum(s) == WSumTo(s, Len(s))

\* n.to_bytes(k, 'little')
RECURSIVE ToBytesLE(_, _)
ToBytesLE(n, k) == IF k = 0 THEN <<>> ELSE <<n % 256>> \o ToBytesLE(n \div 256, k - 1)

\* the test messages of the codec round trip
Pattern(len, seed) == [i \in 1..len |-> (17 * seed + 3 * i) % 256]

(***************************************************************************)
(* CCMAgent.  AES-CCM is a library primitive; it is modelled as a stream   *)
(* cipher keyed by (token, nonce) with a TagLen-byte tag over the          *)
(* plaintext, which is what the code relies on: decryption under the same  *)
(* key and nonce returns the plaintext, and any other key, nonce or tag is *)
(* rejected.                                                               *)
(***************************************************************************)
create_iv(random_code, count) == ToBytesLE(count, CounterLen) \o <<0>> \o random_code

CipherSeed(token, iv) == (WSum(token) + 7 * WSum(iv)) % 256

CcmTag(token, iv, plain) ==
    LET seed == CipherSeed(token, iv)
        sum == WSum(plain)
    IN  [j \in 1..TagLen |-> (seed * j + sum + j) % 256]

encrypt_and_digest(token, iv, plain) ==
    LET seed == CipherSeed(token, iv)
    IN  [i \in 1..Len(plain) |-> (plain[i] + seed + i) % 256] \o CcmTag(token, iv, plain)

CcmPlain(token, iv, data) ==
    LET ciphertext == DropLast(data, TagLen)
        seed == CipherSeed(token, iv)
    IN  [i \in 1..Len(ciphertext) |-> (ciphertext[i] + 512 - seed - i) % 256]

\* decrypt_and_verify raises ValueError unless the tag matches
CcmVerifies(token, iv, data) ==
    TakeLast(data, TagLen) = CcmTag(token, iv, CcmPlain(token, iv, data))

CCMAgent(random_code, token) ==
    [random_code |-> random_code, token |-> token, recv_count |-> 0, send_count |-> 0]

\* CCMAgent.encrypt: the nonce is taken from send_count, which then advances
encrypt_after_stuck(agent) == agent
encrypt_after(agent) == [agent EXCEPT !.send_count = @ + 1]
encrypt(agent, data) ==
    encrypt_and_digest(agent.token, create_iv(agent.random_code, agent.send_count), data)

\* CCMAgent.decrypt: the nonce is taken from recv_count, which then advances
decrypt_after(agent) == [agent EXCEPT !.recv_count = @ + 1]
decrypt_ok(agent, data) ==
    CcmVerifies(agent.token, create_iv(agent.random_code, agent.recv_count), data)
decrypt(agent, data) ==
    CcmPlain(agent.token, create_iv(agent.random_code, agent.recv_count), data)

(***************************************************************************)
(* SSMTransportHandler.send: the fragmentation loop.                       *)
(***************************************************************************)
\* the number of iterations of  for i in range(0, len(data), 19)
NumChunks(n) == (n + ChunkLen - 1) \div ChunkLen

SegHeader_offbyone(i, n, encrypted) ==
    LET parsing_type == IF i # (n \div ChunkLen) * ChunkLen THEN 0
                        ELSE IF encrypted THEN 2 ELSE 1
    IN  parsing_type * 2 + (IF i = 0 THEN 1 ELSE 0)

\* SEG of the iteration with loop variable i, for data of length n
SegHeader(i, n, encrypted) ==
    LET parsing_type == IF i # ((n - 1) \div ChunkLen) * ChunkLen THEN 0
                        ELSE IF encrypted THEN 2 ELSE 1
    IN  parsing_type * 2 + (IF i = 0 THEN 1 ELSE 0)

\* the bytes handed to gatt_write in iteration k = i / 19
Segment(data, k, encrypted) ==
    <<SegHeader(k * ChunkLen, Len(data), encrypted)>>
        \o Slice(data, k * ChunkLen, k * ChunkLen + ChunkLen)


(***************************************************************************)
(* SesameClient's listener table.  An entry is the tuple                   *)
(* (callback, oneoff, deserialize); a callback is known by its identity.   *)
(***************************************************************************)
Codes == {2, 5, 14, 82}

Entry(id, oneoff, deser) == [id |-> id, oneoff |-> oneoff, deser |-> deser]

\* list.remove(x): drops the first element equal to x
RECURSIVE ListRemove(_, _)
ListRemove(lst, x) ==
    IF lst = <<>> THEN <<>>
    ELSE IF lst[1] = x THEN Tail(lst)
    ELSE <<lst[1]>> \o ListRemove(Tail(lst), x)

\* _add_listener
add_listener_to(listeners, item_code, entry) ==
    [listeners EXCEPT ![item_code] = Append(@, entry)]

(***************************************************************************)
(* _response_handler, lines 308-324: for entry in list: call the callback, *)
(* then remove the entry from the list being iterated when it is one-off.  *)
(* Python's list iterator keeps a position; i is that position, 1-based.   *)
(* The loop's locals are the record st:                                    *)
(*   fired    the callbacks called so far, in order                        *)
(*   got      what each was given: 0 the raw bytes, k > 0 the event object *)
(*            made by the k-th from_bytes call of this dispatch            *)
(*   stamp    the how-manieth callback call of the whole run each was      *)
(*   result   deserialize_result: 0 for None, else the event object        *)
(*   decodes  from_bytes calls so far                                      *)
(*   clock    callback calls of the whole run so far                       *)
(***************************************************************************)
RemoveIfOneoff_keep(lst, e) == lst
RemoveIfOneoff(lst, e) == IF e.oneoff THEN ListRemove(lst, e) ELSE lst

\* inspect.iscoroutinefunction(callback), line 318: the application's async
\* callbacks are the ones known as <<"asub", n>>
IsCoroutine(id) == id[1] = "asub"

\* lines 312-313: from_bytes is called for a typed entry while deserialize_result is None
NeedsDecode_always(deser, result) == deser
NeedsDecode(deser, result) == deser /\ result = 0

NewLocals(clock) ==
    [fired |-> <<>>, got |-> <<>>, stamp |-> <<>>, result |-> 0, decodes |-> 0,
     clock |-> clock]

\* lines 311-321 for the entry e: the decode, then the call of the callback
CallEntry(e, st) ==
    LET dec == NeedsDecode(e.deser, st.result)
        res == IF dec THEN st.decodes + 1 ELSE st.result
    IN  [fired |-> Append(st.fired, e.id),
         got |-> Append(st.got, IF e.deser THEN res ELSE 0),
         stamp |-> Append(st.stamp, st.clock + 1),
         result |-> IF e.deser THEN res ELSE st.result,
         decodes |-> IF dec THEN st.decodes + 1 ELSE st.decodes,
         clock |-> st.clock + 1]

\* the loop from position i until it ends or suspends in an awaited
\* callback (line 319); awaiting says which, and i is then the position of
\* the entry whose callback is awaited
RECURSIVE DispatchLoop(_, _, _)
DispatchLoop(lst, i, st) ==
    IF i > Len(lst) THEN [lst |-> lst, st |-> st, i |-> i, awaiting |-> FALSE]
    ELSE IF IsCoroutine(lst[i].id)
         THEN [lst |-> lst, st |-> CallEntry(lst[i], st), i |-> i, awaiting |-> TRUE]
         ELSE DispatchLoop(RemoveIfOneoff(lst, lst[i]), i + 1, CallEntry(lst[i], st))

\* line 307 indexes data[0] and data[1] before anything else
HandlerRaisesEarly(data) == Len(data) < 2

\* the match statement after the loop indexes data[2] for these codes
HandlerRaisesLate(data) ==
    \/ data[2] \in {4, 82, 83} /\ Len(data) < 3
    \/ data[2] = 81 /\ Len(data) < 9

(***************************************************************************)
(* SSMTransportHandler.data_handler on (data, is_encrypted) with session   *)
(* agent: what it does to the session and whether the message goes on.     *)
(*   outcome "raise_nosession": RuntimeError, line 81                      *)
(*   outcome "raise_tag": decrypt_and_verify's ValueError, line 82         *)
(*   outcome "drop": the silent return of line 84                          *)
(*   outcome "dispatch": response_handler is called with .plain            *)
(***************************************************************************)
data_handler_success_only(agent, data, is_encrypted) ==
    IF is_encrypted THEN
        IF agent = None THEN [outcome |-> "raise_nosession", ccm |-> agent, plain |-> <<>>]
        ELSE IF decrypt_ok(agent, data)
             THEN [outcome |-> "dispatch", ccm |-> decrypt_after(agent),
                   plain |-> decrypt(agent, data)]
             ELSE [outcome |-> "raise_tag", ccm |-> agent, plain |-> <<>>]
    ELSE IF agent # None THEN [outcome |-> "drop", ccm |-> agent, plain |-> <<>>]
    ELSE [outcome |-> "dispatch", ccm |-> agent, plain |-> data]

data_handler_unchecked(agent, data, is_encrypted) ==
    IF is_encrypted /\ agent # None THEN
        IF decrypt_ok(agent, data)
        THEN [outcome |-> "dispatch", ccm |-> decrypt_after(agent),
              plain |-> decrypt(agent, data)]
        ELSE [outcome |-> "raise_tag", ccm |-> decrypt_after(agent), plain |-> <<>>]
    ELSE IF agent # None THEN [outcome |-> "drop", ccm |-> agent, plain |-> <<>>]
    ELSE [outcome |-> "dispatch", ccm |-> agent, plain |-> data]

data_handler_lenient(agent, data, is_encrypted) ==
    IF is_encrypted THEN
        IF agent = None THEN [outcome |-> "raise_nosession", ccm |-> agent, plain |-> <<>>]
        ELSE [outcome |-> "dispatch", ccm |-> decrypt_after(agent),
              plain |-> decrypt(agent, data)]
    ELSE IF agent # None THEN [outcome |-> "drop", ccm |-> agent, plain |-> <<>>]
    ELSE [outcome |-> "dispatch", ccm |-> agent, plain |-> data]

data_handler_open(agent, data, is_encrypted) ==
    IF is_encrypted THEN
        IF agent = None THEN [outcome |-> "raise_nosession", ccm |-> agent, plain |-> <<>>]
        ELSE IF decrypt_ok(agent, data)
             THEN [outcome |-> "dispatch", ccm |-> decrypt_after(agent),
                   plain |-> decrypt(agent, data)]
             ELSE [outcome |-> "raise_tag", ccm |-> decrypt_after(agent), plain |-> <<>>]
    ELSE [outcome |-> "dispatch", ccm |-> agent, plain |-> data]

data_handler(agent, data, is_encrypted) ==
    IF is_encrypted THEN
        IF agent = None THEN [outcome |-> "raise_nosession", ccm |-> agent, plain |-> <<>>]
        ELSE IF decrypt_ok(agent, data)
             THEN [outcome |-> "dispatch", ccm |-> decrypt_after(agent),
                   plain |-> decrypt(agent, data)]
             ELSE [outcome |-> "raise_tag", ccm |-> decrypt_after(agent), plain |-> <<>>]
    ELSE IF agent # None THEN [outcome |-> "drop", ccm |-> agent, plain |-> <<>>]
    ELSE [outcome |-> "dispatch", ccm |-> agent, plain |-> data]


(***************************************************************************)
(* Futures and waiters: _wait_for_response creates a future and registers  *)
(* a one-off callback that sets it.  A callback is known by who created it *)
(* and the how-manieth of its creator's callbacks it is.                   *)
(***************************************************************************)
NewFuture(item_code) == [code |-> item_code, state |-> "pending", result |-> <<>>]

\* the callback of line 290-291 run for every id in fired: f.set_result
\* (set_result on a future that is no longer pending changes nothing)
SetResults(futs, fired, data) ==
    [id \in DOMAIN futs |->
        IF futs[id].state = "pending" /\ \E j \in DOMAIN fired : fired[j] = id
        THEN [futs[id] EXCEPT !.state = "done", !.result = data]
        ELSE futs[id]]

(***************************************************************************)
(* The state of one coroutine of the application.                          *)
(*   pc: "idle"     not called                                             *)
(*       "linking"  connect() suspended in txrx.connect (line 208)         *)
(*       "await14"  connect() suspended on the item-14 waiter (line 209)   *)
(*       "write"    suspended in gatt_write, k chunks written (line 73)    *)
(*       "wait"     suspended on the response waiter (line 284)            *)
(*       "done"     returned                                               *)
(*       "error_session"  RuntimeError of send (line 60)                   *)
(*       "error_link"     the link's error out of gatt_write               *)
(*       "timeout"  TimeoutError of asyncio.wait_for                       *)
(***************************************************************************)
Tasks == {"conn", "lock", "ver", "raw", "app"}
Cmds == {"lock", "ver"}

NoWaiter == <<"none", 0>>

IdleTask == [pc |-> "idle", data |-> <<>>, enc |-> FALSE, k |-> 0, waiter |-> NoWaiter,
             made |-> 0, calls |-> 0]

\* what a gatt_write is remembered by: the bytes, the caller, the waiter the
\* caller has registered, and the session counters at the moment of the call
\* (-1 without a session)
WireEntry(seg, t, enc, agent, w) ==
    [seg |-> seg, by |-> t, enc |-> enc, w |-> w,
     sc |-> IF agent = None THEN -1 ELSE agent.send_count,
     rc |-> IF agent = None THEN -1 ELSE agent.recv_count]

(***************************************************************************)
(* SSMTransportHandler.send(data, encrypted) called by coroutine t, up to  *)
(* its first suspension: the session check, the encryption and the first   *)
(* gatt_write.  agent is txrx.ccm at the call, w the waiter t awaits       *)
(* afterwards (NoWaiter: none), tk the coroutines' state at the call.      *)
(***************************************************************************)
send(t, data, encrypted, w, tk, agent) ==
    IF encrypted /\ agent = None THEN
        /\ task' = [tk EXCEPT ![t] = [@ EXCEPT !.pc = "error_session", !.waiter = w]]
        /\ ccm' = agent
        /\ UNCHANGED <<wire, encLog>>
    ELSE
        LET out == IF encrypted THEN encrypt(agent, data) ELSE data
            after == IF encrypted THEN encrypt_after(agent) ELSE agent
        IN  /\ ccm' = after
            /\ encLog' = IF encrypted
                         THEN Append(encLog, [session |-> session, count |-> agent.send_count])
                         ELSE encLog
            /\ IF NumChunks(Len(out)) = 0 THEN
                   /\ wire' = wire
                   /\ task' = [tk EXCEPT ![t] = [@ EXCEPT
                                  !.pc = IF w = NoWaiter THEN "done" ELSE "wait", !.waiter = w]]
               ELSE IF ~connected THEN
                   /\ wire' = wire
                   /\ task' = [tk EXCEPT ![t] = [@ EXCEPT !.pc = "error_link", !.waiter = w]]
               ELSE
                   /\ wire' = Append(wire, WireEntry(Segment(out, 0, encrypted), t, encrypted, after, w))
                   /\ task' = [tk EXCEPT ![t] = [@ EXCEPT
                                  !.pc = "write", !.data = out, !.enc = encrypted,
                                  !.k = 1, !.waiter = w]]

\* gatt_write returns to the loop of send: the next chunk is written, or send
\* returns and the caller goes on to await its waiter
WriteResume(t) ==
    /\ task[t].pc = "write"
    /\ IF task[t].k >= NumChunks(Len(task[t].data)) THEN
           /\ task' = [task EXCEPT ![t] = [@ EXCEPT
                          !.pc = IF task[t].waiter = NoWaiter THEN "done" ELSE "wait",
                          !.data = <<>>, !.k = 0]]
           /\ wire' = wire
       ELSE IF ~connected THEN
           /\ task' = [task EXCEPT ![t] = [@ EXCEPT !.pc = "error_link", !.data = <<>>, !.k = 0]]
           /\ wire' = wire
       ELSE
           /\ wire' = Append(wire, WireEntry(Segment(task[t].data, task[t].k, task[t].enc),
                                             t, task[t].enc, ccm, task[t].waiter))
           /\ task' = [task EXCEPT ![t].k = @ + 1]
    /\ UNCHANGED <<ccm, buffer, response_listener, connected, devOut, dev, completed,
                   dispatched, raised, future, encLog, decLog, session, frameIn, appLog, notified, pending>>

(***************************************************************************)
(* SSMTransportHandler.notification_handler(data) with everything it       *)
(* calls: data_handler, CCMAgent.decrypt, SesameClient._response_handler.  *)
(* The link runs every notification's handler as a task of its own.  The   *)
(* handler runs without suspending unless _response_handler awaits a       *)
(* callback that is a coroutine function (line 319); it is then kept in    *)
(* pending, and HandlerResume is the rest of it.                           *)
(***************************************************************************)
\* callback calls of the whole run so far
CallCount == SumSeq([j \in DOMAIN dispatched |-> Len(dispatched[j].fired)])

\* what one dispatch is remembered by
DispatchRecord(code, enc, before, loop, n) ==
    [code |-> code, enc |-> enc, fired |-> loop.st.fired, got |-> loop.st.got,
     stamp |-> loop.st.stamp, decodes |-> loop.st.decodes,
     before |-> before, after |-> loop.lst, n |-> n, done |-> ~loop.awaiting]

\* a handler suspended in the callback of entry: the dispatch it belongs to
\* (j in dispatched), its argument data, the iterator's position and the
\* loop's locals
Suspended(j, plain, loop) ==
    [j |-> j, plain |-> plain, i |-> loop.i, entry |-> loop.lst[loop.i], st |-> loop.st]

\* _response_handler(plain, enc) reached for the message: the loop over the
\* listeners of plain[2] (Python's data[1])
Deliver(plain, enc) ==
    IF HandlerRaisesEarly(plain) THEN
        /\ UNCHANGED <<response_listener, future, dispatched, pending>>
    ELSE
        LET code == plain[2]
            loop == IF code \in Codes
                    THEN DispatchLoop(response_listener[code], 1, NewLocals(CallCount))
                    ELSE [lst |-> <<>>, st |-> NewLocals(CallCount), i |-> 1,
                          awaiting |-> FALSE]
        IN  /\ response_listener' = IF code \in Codes
                                    THEN [response_listener EXCEPT ![code] = loop.lst]
                                    ELSE response_listener
            /\ future' = SetResults(future, loop.st.fired, plain)
            /\ dispatched' = Append(dispatched,
                   DispatchRecord(code, enc,
                                  IF code \in Codes THEN response_listener[code] ELSE <<>>,
                                  loop, Len(completed) + 1))
            /\ pending' = IF loop.awaiting
                          THEN Append(pending, Suspended(Len(dispatched) + 1, plain, loop))
                          ELSE pending

\* whether _response_handler(plain) suspends in an awaited callback
HandlerSuspends(plain) ==
    /\ ~HandlerRaisesEarly(plain)
    /\ plain[2] \in Codes
    /\ DispatchLoop(response_listener[plain[2]], 1, NewLocals(CallCount)).awaiting

\* whether data_handler(data, is_encrypted) ends in an exception before it
\* suspends: its own, the tag check's, or one of _response_handler
DataHandlerRaises(data, is_encrypted) ==
    LET r == data_handler(ccm, data, is_encrypted)
    IN  \/ r.outcome \in {"raise_nosession", "raise_tag"}
        \/ /\ r.outcome = "dispatch"
           /\ \/ HandlerRaisesEarly(r.plain)
              \/ /\ ~HandlerRaisesEarly(r.plain)
                 /\ ~HandlerSuspends(r.plain)
                 /\ HandlerRaisesLate(r.plain)

\* whether the call returns to notification_handler within the same step
DataHandlerReturns(data, is_encrypted) ==
    LET r == data_handler(ccm, data, is_encrypted)
    IN  /\ ~DataHandlerRaises(data, is_encrypted)
        /\ ~(r.outcome = "dispatch" /\ HandlerSuspends(r.plain))

\* the call  await self.data_handler(data, is_encrypted)
CallDataHandler(data, is_encrypted) ==
    LET r == data_handler(ccm, data, is_encrypted)
    IN  /\ ccm' = r.ccm
        /\ completed' = Append(completed,
               [data |-> data, enc |-> is_encrypted, session |-> ccm # None,
                outcome |-> r.outcome, frag |-> Len(notified) + 1])
        /\ decLog' = IF is_encrypted /\ ccm # None
                     THEN Append(decLog, [session |-> session, count |-> ccm.recv_count,
                                          ok |-> r.outcome = "dispatch",
                                          sc |-> ccm.send_count, sc2 |-> r.ccm.send_count])
                     ELSE decLog
        /\ raised' = IF DataHandlerRaises(data, is_encrypted)
                     THEN Append(raised, Len(completed) + 1) ELSE raised
        /\ IF r.outcome = "dispatch" THEN Deliver(r.plain, is_encrypted)
           ELSE UNCHANGED <<response_listener, future, dispatched, pending>>

\* self.buffer when notification_handler returns, raises or suspends, for a
\* fragment with that header and chunk; returned: the data_handler call of a
\* terminal fragment came back, so that line 98/104 is reached
BufferAfter_append(buf, header, chunk, returned) ==
    CASE header \in {0, 1} -> buf \o chunk
      [] header \in {2, 4} -> IF returned THEN <<>> ELSE buf \o chunk
      [] OTHER -> buf

BufferAfter_reset(buf, header, chunk, returned) ==
    CASE header = 0 -> buf \o chunk
      [] header = 1 -> chunk
      [] header \in {2, 4} -> IF returned THEN <<>> ELSE buf \o chunk
      [] OTHER -> <<>>

BufferAfter(buf, header, chunk, returned) ==
    CASE header = 0 -> buf \o chunk
      [] header = 1 -> chunk
      [] header \in {2, 4} -> IF returned THEN <<>> ELSE buf \o chunk
      [] OTHER -> buf

notification_handler(data) ==
    LET header == data[1]
        chunk == SliceFrom(data, 1)
    IN  CASE header \in {0, 1} ->
                /\ buffer' = BufferAfter(buffer, header, chunk, TRUE)
                /\ UNCHANGED <<ccm, completed, decLog, raised, response_listener,
                               future, dispatched, pending>>
          [] header \in {2, 4} ->
                /\ CallDataHandler(buffer \o chunk, header = 4)
                /\ buffer' = BufferAfter(buffer, header, chunk,
                                         DataHandlerReturns(buffer \o chunk, header = 4))
          [] header \in {3, 5} ->
                /\ CallDataHandler(chunk, header = 5)
                /\ buffer' = BufferAfter(buffer, header, chunk,
                                         DataHandlerReturns(chunk, header = 5))
          [] OTHER ->
                /\ buffer' = BufferAfter(buffer, header, chunk, TRUE)
                /\ UNCHANGED <<ccm, completed, decLog, raised, response_listener,
                               future, dispatched, pending>>

\* the rest of a suspended handler once the awaited callback has returned:
\* line 323, the rest of the loop, the match statement, and back in
\* notification_handler the statement after the data_handler call
HandlerResume(p) ==
    LET h == pending[p]
        d == dispatched[h.j]
        loop == DispatchLoop(RemoveIfOneoff(response_listener[d.code], h.entry), h.i + 1,
                             [h.st EXCEPT !.clock = CallCount])
        plain == h.plain
        header == notified[completed[d.n].frag][1]
    IN  /\ response_listener' = [response_listener EXCEPT ![d.code] = loop.lst]
        /\ dispatched' = [dispatched EXCEPT ![h.j] =
               [@ EXCEPT !.fired = loop.st.fired, !.got = loop.st.got,
                         !.stamp = loop.st.stamp, !.decodes = loop.st.decodes,
                         !.after = loop.lst, !.done = ~loop.awaiting]]
        /\ future' = SetResults(future, SliceFrom(loop.st.fired, Len(h.st.fired)), plain)
        /\ IF loop.awaiting THEN
               /\ pending' = [pending EXCEPT ![p] = Suspended(h.j, plain, loop)]
               /\ UNCHANGED <<raised, buffer>>
           ELSE
               /\ pending' = SubSeq(pending, 1, p - 1) \o SubSeq(pending, p + 1, Len(pending))
               /\ raised' = IF HandlerRaisesLate(plain) THEN Append(raised, d.n) ELSE raised
               /\ buffer' = IF header \in {2, 4} /\ ~HandlerRaisesLate(plain)
                            THEN <<>> ELSE buffer
        /\ UNCHANGED <<ccm, connected, task, wire, devOut, dev, completed, encLog, decLog,
                       session, frameIn, appLog, notified>>

\* the link notifies the fragments frags in order: the first one now, the
\* others one notification at a time
Notify(frags) ==
    /\ notification_handler(Head(frags))
    /\ notified' = Append(notified, Head(frags))
    /\ devOut' = Tail(frags)

\* the link notifies the next fragment of the message under way
DevDeliver ==
    /\ connected
    /\ devOut # <<>>
    /\ Notify(devOut)
    /\ UNCHANGED <<connected, task, wire, dev, encLog, session, frameIn, appLog>>

(***************************************************************************)
(* The codec round trip: txrx.send(data, enc) is called once and the link  *)
(* hands every write back as a notification (a loopback peer).             *)
(***************************************************************************)
\* a session for the round trip's encrypted sends
FrameAgent == CCMAgent(<<1, 2, 3, 4>>, [j \in 1..DigestLen |-> j])

FrameInputs ==
    {[data |-> Pattern(len, seed), enc |-> e] :
        len \in 0..MaxFrameLen, seed \in 0..MaxSeed, e \in BOOLEAN}

InitCommon ==
    /\ buffer = <<>>
    /\ response_listener = [c \in Codes |-> <<>>]
    /\ task = [t \in Tasks |-> IdleTask]
    /\ wire = <<>>
    /\ devOut = <<>>
    /\ completed = <<>>
    /\ dispatched = <<>>
    /\ raised = <<>>
    /\ future = <<>>
    /\ encLog = <<>>
    /\ decLog = <<>>
    /\ appLog = <<>>
    /\ notified = <<>>
    /\ pending = <<>>

InitFrame ==
    /\ InitCommon
    /\ frameIn \in FrameInputs
    /\ ccm = IF frameIn.enc THEN FrameAgent ELSE None
    /\ session = IF frameIn.enc THEN 1 ELSE 0
    /\ connected = TRUE
    /\ dev = [challenge |-> <<>>, send_count |-> 0, n |-> 0, base |-> 0]

\* the application calls txrx.send(frameIn.data, frameIn.enc)
RawSend ==
    /\ task["raw"].pc = "idle"
    /\ send("raw", frameIn.data, frameIn.enc, NoWaiter, task, ccm)
    /\ UNCHANGED <<buffer, response_listener, connected, devOut, dev, completed,
                   dispatched, raised, future, decLog, session, frameIn, appLog, notified, pending>>

\* the loopback peer notifies the next write
FrameEcho ==
    /\ dev.n < Len(wire)
    /\ Notify(<<wire[dev.n + 1].seg>>)
    /\ dev' = [dev EXCEPT !.n = @ + 1]
    /\ UNCHANGED <<connected, task, wire, encLog, session, frameIn, appLog>>

NextFrame == RawSend \/ WriteResume("raw") \/ FrameEcho

SpecFrame == InitFrame /\ [][NextFrame]_vars

\* the bytes that send fragments: the message, encrypted when asked
Framed == IF frameIn.enc THEN encrypt(FrameAgent, frameIn.data) ELSE frameIn.data

RoundTripDone ==
    /\ task["raw"].pc = "done"
    /\ dev.n = Len(wire)

\* C1: once send has returned and every write has been notified, exactly one
\* message has been completed, it is the framed bytes, and it carries the flag
\* that send was given.
C1_RoundTrip ==
    RoundTripDone =>
        /\ Len(completed) = 1
        /\ completed[1].data = Framed
        /\ completed[1].enc = frameIn.enc

\* the same for every message of at least one byte
C1_RoundTripNonEmpty ==
    (RoundTripDone /\ Len(frameIn.data) >= 1) =>
        /\ Len(completed) = 1
        /\ completed[1].data = Framed
        /\ completed[1].enc = frameIn.enc


(***************************************************************************)
(* SesameClient: connect, _login, disconnect and the commands.             *)
(***************************************************************************)
\* the long-term device secret, priv_key
PrivKey == [j \in 1..DigestLen |-> (11 * j) % 256]

\* CMAC.new(key, ciphermod=AES).update(msg).digest(): a library primitive,
\* modelled as a DigestLen-byte checksum of the key and of every byte of msg
CmacDigest(key, msg) ==
    LET sum == WSum(key) + 5 * WSum(msg)
    IN  [j \in 1..DigestLen |-> (sum + j * j) % 256]

\* _login, lines 216-220: the token and the session built from the item-14 message
LoginToken(data) == Slice(CmacDigest(PrivKey, SliceFrom(data, 2)), 0, 16)
LoginAgent(data) == CCMAgent(Slice(data, 2, 6), LoginToken(data))

\* _wait_for_response(item_code): a new future and its one-off callback
WaiterId(t) == <<t, task[t].made + 1>>
RegisterWaiter_shared(listeners, item_code, t) ==
    add_listener_to(listeners, IF item_code = 5 THEN 82 ELSE item_code,
                    Entry(WaiterId(t), TRUE, FALSE))
RegisterWaiter(listeners, item_code, t) ==
    add_listener_to(listeners, item_code, Entry(WaiterId(t), TRUE, FALSE))
WithFuture(futs, t, item_code) == futs @@ (WaiterId(t) :> NewFuture(item_code))

\* connect(), lines 207-208: the item-14 waiter, then the link is opened
ConnStart ==
    /\ task["conn"].pc = "idle"
    /\ task["conn"].calls < MaxConnects
    /\ response_listener' = RegisterWaiter(response_listener, 14, "conn")
    /\ future' = WithFuture(future, "conn", 14)
    /\ task' = [task EXCEPT !["conn"] = [@ EXCEPT
                   !.pc = "linking", !.waiter = WaiterId("conn"), !.made = @ + 1,
                   !.calls = @ + 1]]
    /\ UNCHANGED <<ccm, buffer, connected, wire, devOut, dev, completed, dispatched,
                   raised, encLog, decLog, session, frameIn, appLog, notified, pending>>

\* txrx.connect() returns: the link is up and notifications are on
LinkUp ==
    /\ task["conn"].pc = "linking"
    /\ connected' = TRUE
    /\ task' = [task EXCEPT !["conn"].pc = "await14"]
    /\ dev' = [dev EXCEPT !.challenge = <<>>, !.send_count = 0, !.base = Len(wire)]
    /\ UNCHANGED <<ccm, buffer, response_listener, wire, devOut, completed, dispatched,
                   raised, future, encLog, decLog, session, frameIn, appLog, notified, pending>>

\* _send(item_code, payload, encrypted), line 278
Envelope(item_code, payload) == <<item_code>> \o payload

ConnLogin_encrypted ==
    /\ task["conn"].pc = "await14"
    /\ future[task["conn"].waiter].state = "done"
    /\ LET initial == future[task["conn"].waiter].result
       IN  /\ session' = session + 1
           /\ response_listener' = RegisterWaiter(response_listener, 2, "conn")
           /\ future' = WithFuture(future, "conn", 2)
           /\ send("conn", Envelope(2, Slice(LoginToken(initial), 0, 4)), TRUE,
                   WaiterId("conn"), [task EXCEPT !["conn"].made = @ + 1],
                   LoginAgent(initial))
    /\ UNCHANGED <<buffer, connected, devOut, dev, completed, dispatched, raised,
                   decLog, frameIn, appLog, notified, pending>>

\* the item-14 waiter is set: connect() goes on into _login, which builds the
\* session and calls _send_and_wait(2, token[:4], encrypted=False)
ConnLogin ==
    /\ task["conn"].pc = "await14"
    /\ future[task["conn"].waiter].state = "done"
    /\ LET initial == future[task["conn"].waiter].result
       IN  /\ session' = session + 1
           /\ response_listener' = RegisterWaiter(response_listener, 2, "conn")
           /\ future' = WithFuture(future, "conn", 2)
           /\ send("conn", Envelope(2, Slice(LoginToken(initial), 0, 4)), FALSE,
                   WaiterId("conn"), [task EXCEPT !["conn"].made = @ + 1],
                   LoginAgent(initial))
    /\ UNCHANGED <<buffer, connected, devOut, dev, completed, dispatched, raised,
                   decLog, frameIn, appLog, notified, pending>>

\* the awaited response waiter is set: _send_and_wait returns
TaskResume(t) ==
    /\ task[t].pc = "wait"
    /\ future[task[t].waiter].state = "done"
    /\ task' = [task EXCEPT ![t].pc = "done"]
    /\ UNCHANGED <<ccm, buffer, response_listener, connected, wire, devOut, dev,
                   completed, dispatched, raised, future, encLog, decLog, session,
                   frameIn, appLog, notified, pending>>

\* disconnect() after connect() has returned
ConnDisconnect ==
    /\ task["conn"].pc = "done"
    /\ connected
    /\ connected' = FALSE
    /\ devOut' = <<>>
    /\ task' = [task EXCEPT !["conn"].pc = "idle"]
    /\ UNCHANGED <<ccm, buffer, response_listener, wire, dev, completed, dispatched,
                   raised, future, encLog, decLog, session, frameIn, appLog, notified, pending>>

\* lock(display_name) with a 20-byte name, and get_version()
DisplayName == [j \in 1..20 |-> 65]
CmdCode(t) == IF t = "lock" THEN 82 ELSE 5
CmdPayload(t) == IF t = "lock" THEN <<Len(DisplayName)>> \o DisplayName ELSE <<>>

CmdStart_late(t) ==
    /\ task[t].pc \in {"idle", "done", "timeout", "error_session", "error_link"}
    /\ task[t].calls < MaxCalls
    /\ future' = WithFuture(future, t, CmdCode(t))
    /\ send(t, Envelope(CmdCode(t), CmdPayload(t)), TRUE, WaiterId(t),
            [task EXCEPT ![t] = [@ EXCEPT !.calls = @ + 1, !.made = @ + 1]], ccm)
    /\ UNCHANGED <<buffer, response_listener, connected, devOut, dev, completed,
                   dispatched, raised, decLog, session, frameIn, appLog, notified, pending>>

\* a command is called: _send_and_wait(code, payload, encrypted=True) up to its
\* first suspension
CmdStart(t) ==
    /\ task[t].pc \in {"idle", "done", "timeout", "error_session", "error_link"}
    /\ task[t].calls < MaxCalls
    /\ response_listener' = RegisterWaiter(response_listener, CmdCode(t), t)
    /\ future' = WithFuture(future, t, CmdCode(t))
    /\ send(t, Envelope(CmdCode(t), CmdPayload(t)), TRUE, WaiterId(t),
            [task EXCEPT ![t] = [@ EXCEPT !.calls = @ + 1, !.made = @ + 1]], ccm)
    /\ UNCHANGED <<buffer, connected, devOut, dev, completed, dispatched, raised,
                   decLog, session, frameIn, appLog, notified, pending>>

CmdTimeout_never(t) == FALSE /\ UNCHANGED vars

\* asyncio.wait_for(..., timeout=5) gives up: the suspended _send_and_wait is
\* cancelled (and with it the waiter it awaits) and TimeoutError is raised
CmdTimeout(t) ==
    /\ task[t].pc \in {"write", "wait"}
    /\ ~(task[t].pc = "wait" /\ future[task[t].waiter].state = "done")
    /\ future' = IF task[t].pc = "wait"
                 THEN [future EXCEPT ![task[t].waiter].state = "cancelled"]
                 ELSE future
    /\ task' = [task EXCEPT ![t] = [@ EXCEPT !.pc = "timeout", !.data = <<>>, !.k = 0]]
    /\ UNCHANGED <<ccm, buffer, response_listener, connected, wire, devOut, dev,
                   completed, dispatched, raised, encLog, decLog, session, frameIn, appLog, notified, pending>>

(***************************************************************************)
(* The device, as the client's environment.  It shares PrivKey, derives    *)
(* the session key from the item-14 message it sent, and encrypts with its *)
(* own send counter.                                                       *)
(***************************************************************************)
\* the device's random code: a fresh one for every connection
\* (0x11223344 for the first)
Challenge(n) == [j \in 1..4 |-> (17 * j * n) % 256]

ChallengeMsg(c) == <<8, 14>> \o c

\* what the device answers: login, version (two fragments once encrypted), lock
ResponseMsg(code) ==
    CASE code = 2 -> <<7, 2, 0, 1, 2, 3, 4>>
      [] code = 5 -> <<7, 5, 0>> \o [j \in 1..14 |-> 48 + j]
      [] OTHER -> <<7, code, 0>>

DevFragments(data, enc) == [k \in 1..NumChunks(Len(data)) |-> Segment(data, k - 1, enc)]

DevEncrypt(plain) ==
    encrypt_and_digest(LoginToken(dev.challenge),
                       create_iv(Slice(dev.challenge, 2, 6), dev.send_count), plain)

\* the same with the last tag byte damaged on the way
Damaged(data) == [data EXCEPT ![Len(data)] = (@ + 1) % 256]

\* the login proof of this connection is on the link
LoginSeen == \E i \in (dev.base + 1)..Len(wire) : wire[i].by = "conn"

DevReady == connected /\ devOut = <<>> /\ dev.n < MaxDevMsgs

\* the device opens with its plaintext item-14 message
DevChallenge ==
    /\ DevReady
    /\ dev.challenge = <<>>
    /\ \E c \in {Challenge(task["conn"].calls)} :
          /\ Notify(DevFragments(ChallengeMsg(c), FALSE))
          /\ dev' = [dev EXCEPT !.challenge = ChallengeMsg(c), !.n = @ + 1]
    /\ UNCHANGED <<connected, task, wire, encLog, session, frameIn, appLog>>

\* the request the device answers with item code c is on the link: the login
\* proof for 2, at least the first fragment of the command for 5 and 82
Requested(c) ==
    \E i \in (dev.base + 1)..Len(wire) :
        wire[i].by = (CASE c = 2 -> "conn" [] c = 5 -> "ver" [] OTHER -> "lock")

\* once logged in the device answers the requests it has seen, encrypted under
\* its own send counter
DevSend ==
    /\ DevReady
    /\ dev.challenge # <<>>
    /\ \E code \in {2, 5, 82} :
          /\ Requested(code)
          /\ Notify(DevFragments(DevEncrypt(ResponseMsg(code)), TRUE))
    /\ dev' = [dev EXCEPT !.send_count = @ + 1, !.n = @ + 1]
    /\ UNCHANGED <<connected, task, wire, encLog, session, frameIn, appLog>>

\* an encrypted message of the device is damaged on the way to the client
DevDamaged ==
    /\ DevReady
    /\ dev.challenge # <<>>
    /\ LoginSeen
    /\ Notify(DevFragments(Damaged(DevEncrypt(ResponseMsg(82))), TRUE))
    /\ dev' = [dev EXCEPT !.send_count = @ + 1, !.n = @ + 1]
    /\ UNCHANGED <<connected, task, wire, encLog, session, frameIn, appLog>>

\* a message the client cannot use: encrypted bytes before any login of this
\* connection, or a plaintext message after it
DevStray ==
    /\ DevReady
    /\ Notify(DevFragments(<<8, 81, 9, 9, 9, 9, 9, 9, 9>>, ~LoginSeen))
    /\ dev' = [dev EXCEPT !.n = @ + 1]
    /\ UNCHANGED <<connected, task, wire, encLog, session, frameIn, appLog>>

Init ==
    /\ InitCommon
    /\ ccm = None
    /\ session = 0
    /\ connected = FALSE
    /\ dev = [challenge |-> <<>>, send_count |-> 0, n |-> 0, base |-> 0]
    /\ frameIn = [data |-> <<>>, enc |-> FALSE]

Next ==
    \/ ConnStart
    \/ LinkUp
    \/ ConnLogin
    \/ ConnDisconnect
    \/ \E t \in Cmds : CmdStart(t)
    \/ \E t \in Cmds : CmdTimeout(t)
    \/ \E t \in Cmds \cup {"conn"} : WriteResume(t)
    \/ \E t \in Cmds \cup {"conn"} : TaskResume(t)
    \/ DevChallenge
    \/ DevSend
    \/ DevDamaged
    \/ DevStray
    \/ DevDeliver

Spec == Init /\ [][Next]_vars


(***************************************************************************)
(* The same system with the event loop's guarantee: a coroutine that can   *)
(* run is run, and a pending notification is delivered.  What the device   *)
(* sends, and whether the application calls anything, is not forced.       *)
(***************************************************************************)
ClientStep ==
    \/ LinkUp
    \/ ConnLogin
    \/ \E t \in Cmds \cup {"conn"} : WriteResume(t)
    \/ \E t \in Cmds \cup {"conn"} : TaskResume(t)

\* weak fairness of DevDeliver, written out with its enabling condition:
\* notification_handler accepts every fragment
DeliverFair ==
    []<>(~(connected /\ devOut # <<>>)) \/ []<><<DevDeliver>>_vars

FairSpec == Spec /\ WF_vars(ClientStep) /\ DeliverFair

(***************************************************************************)
(* The dispatcher alone: the application calls wait_for(event_type), which *)
(* registers a waiter (line 225), and plaintext messages arrive before any *)
(* login.                                                                  *)
(***************************************************************************)
InitDispatch ==
    /\ InitCommon
    /\ ccm = None
    /\ session = 0
    /\ connected = TRUE
    /\ dev = [challenge |-> <<>>, send_count |-> 0, n |-> 0, base |-> 0]
    /\ frameIn = [data |-> <<>>, enc |-> FALSE]

WaitFor ==
    /\ task["app"].made < MaxWaiters
    /\ \E c \in Codes :
          /\ response_listener' = RegisterWaiter(response_listener, c, "app")
          /\ future' = WithFuture(future, "app", c)
    /\ task' = [task EXCEPT !["app"].made = @ + 1]
    /\ UNCHANGED <<ccm, buffer, connected, wire, devOut, dev, completed, dispatched,
                   raised, encLog, decLog, session, frameIn, appLog, notified, pending>>

Inbound ==
    /\ dev.n < MaxDispatches
    /\ \E c \in Codes : Notify(DevFragments(<<8, c, 0>>, FALSE))
    /\ dev' = [dev EXCEPT !.n = @ + 1]
    /\ UNCHANGED <<connected, task, wire, encLog, session, frameIn, appLog>>

NextDispatch == WaitFor \/ Inbound

SpecDispatch == InitDispatch /\ [][NextDispatch]_vars

(***************************************************************************)
(* The claims.                                                             *)
(***************************************************************************)
CurEnc == SelectSeq(encLog, LAMBDA e : e.session = session)
CurDec == SelectSeq(decLog, LAMBDA e : e.session = session)

\* C2: in every state send_count of the session is the number of encrypt calls
\* made under it, the counter values its calls used are strictly increasing in
\* call order, and so no two calls of one session share a nonce.
C2_NonceMonotonic ==
    /\ ccm # None => ccm.send_count = Len(CurEnc)
    /\ \A i, j \in DOMAIN encLog :
          (i < j /\ encLog[i].session = encLog[j].session)
              => encLog[i].count < encLog[j].count

\* both commands have encrypted under the same session
C2_Witness ==
    /\ ccm # None
    /\ ccm.send_count = 2
    /\ \E i, j \in DOMAIN wire : wire[i].by = "lock" /\ wire[j].by = "ver"

\* C3: recv_count of the session is the number of decrypt calls made under
\* it, whether their tags verified or not; the k-th call used counter k - 1;
\* no decrypt call changed send_count.
C3_DecryptCounts ==
    /\ ccm # None => ccm.recv_count = Len(CurDec)
    /\ \A i \in DOMAIN CurDec : CurDec[i].count = i - 1
    /\ \A i \in DOMAIN decLog : decLog[i].sc2 = decLog[i].sc

\* a session has decrypted one message that verified and one that did not
C3_Witness ==
    /\ ccm # None
    /\ ccm.recv_count = 2
    /\ \E i, j \in DOMAIN CurDec : CurDec[i].ok /\ ~CurDec[j].ok

\* C4: as long as no session exists, every command called so far has ended in
\* the session error without writing to the link; no encrypted write was ever
\* made without a session; an inbound message flagged encrypted that met no
\* session raised and reached no handler.
C4_NoSessionRejects ==
    /\ ccm = None =>
          \A t \in Cmds : task[t].calls > 0 =>
              /\ task[t].pc = "error_session"
              /\ \A i \in DOMAIN wire : wire[i].by # t
    /\ \A i \in DOMAIN wire : wire[i].enc => wire[i].sc >= 1
    /\ \A i \in DOMAIN completed :
          (completed[i].enc /\ ~completed[i].session) =>
              /\ completed[i].outcome = "raise_nosession"
              /\ \E j \in DOMAIN raised : raised[j] = i
              /\ \A j \in DOMAIN dispatched : dispatched[j].n # i

\* without a session a command was refused and an encrypted message arrived
C4_Witness ==
    /\ ccm = None
    /\ task["lock"].pc = "error_session"
    /\ \E i \in DOMAIN completed : completed[i].enc /\ ~completed[i].session

\* the handshake of the current connection is complete: the login response has
\* set the waiter of _login
Authenticated ==
    /\ connected
    /\ task["conn"].waiter # NoWaiter
    /\ future[task["conn"].waiter].code = 2
    /\ future[task["conn"].waiter].state = "done"

\* C5: a command called while the handshake is not complete ends in the
\* session error and writes nothing to the link.
C5_RejectedBeforeAck ==
    [][\A t \in Cmds :
          (~Authenticated /\ task'[t].calls = task[t].calls + 1)
              => (task'[t].pc = "error_session" /\ wire' = wire)]_vars

\* C6: connect() does not stay suspended forever on the item-14 waiter or on
\* the login response.
C6_ConnectTimesOut ==
    (task["conn"].pc \in {"await14", "wait"})
        ~> (task["conn"].pc \notin {"await14", "wait"})

\* C7: every write of connect() is the login proof: one plaintext fragment
\* (header 3) with item code 2, written when the item-14 waiter of the same
\* connect() had been set by an item-14 message, under a session whose
\* counters are both 0; and connect() has returned only if an item-2 message
\* was dispatched to the waiter of _login.
C7_HandshakeOrder ==
    /\ \A i \in DOMAIN wire : wire[i].by = "conn" =>
          LET c == <<"conn", wire[i].w[2] - 1>>
          IN  /\ wire[i].seg[1] = 3
              /\ wire[i].seg[2] = 2
              /\ ~wire[i].enc
              /\ wire[i].sc = 0
              /\ wire[i].rc = 0
              /\ c \in DOMAIN future
              /\ future[c].code = 14
              /\ future[c].state = "done"
              /\ future[c].result[2] = 14
    /\ task["conn"].pc = "done" =>
          LET w == task["conn"].waiter
          IN  /\ future[w].code = 2
              /\ future[w].state = "done"
              /\ future[w].result[2] = 2
              /\ \E j \in DOMAIN dispatched :
                    /\ dispatched[j].code = 2
                    /\ \E k \in DOMAIN dispatched[j].fired : dispatched[j].fired[k] = w

\* connect() has returned
C7_Witness == task["conn"].pc = "done" /\ \E i \in DOMAIN wire : wire[i].by = "conn"

\* C8: in a second connect() on the same client, once the device has sent its
\* item-14 challenge, the challenge has been dispatched to the waiter of that
\* connect().
C8_ReconnectHandshake ==
    (task["conn"].calls >= 2 /\ task["conn"].pc = "await14" /\ dev.challenge # <<>>)
        => future[task["conn"].waiter].state = "done"

\* the waiter w is in the listener list of its item code
Registered(w) ==
    \E i \in DOMAIN response_listener[future[w].code] :
        response_listener[future[w].code][i].id = w

\* C9: a _send_and_wait that has written at least one fragment and whose
\* waiter has not been set yet has that waiter registered.
C9_WaiterBeforeWrite ==
    \A t \in Cmds \cup {"conn"} :
        (task[t].pc \in {"write", "wait"} /\ future[task[t].waiter].state = "pending")
            => Registered(task[t].waiter)

\* the response of lock arrived between its two fragments and found the waiter
C9_Witness ==
    /\ task["lock"].pc = "write"
    /\ future[task["lock"].waiter].state = "done"

AllOneoff(lst) == \A i \in DOMAIN lst : lst[i].oneoff

\* C10: a message dispatched to a list of n >= 1 one-off waiters fires the
\* first of them and nothing else, and leaves the other n - 1 registered.
C10_OneWaiterFires ==
    \A j \in DOMAIN dispatched :
        (Len(dispatched[j].before) >= 1 /\ AllOneoff(dispatched[j].before)) =>
            /\ dispatched[j].fired = <<dispatched[j].before[1].id>>
            /\ dispatched[j].after = Tail(dispatched[j].before)


(***************************************************************************)
(* The dispatcher with persistent subscribers: add_listener(event_type,    *)
(* callback) and remove_listener(event_type, callback) next to wait_for.   *)
(* The callbacks are plain functions; each add_listener call passes a new  *)
(* one, known as <<"sub", n>>.                                             *)
(***************************************************************************)
\* the item codes of the event types LoginEvent, InitializeEvent, LockEvent
SubCodes == {2, 14, 82}

Adds == SelectSeq(appLog, LAMBDA e : e.op = "add")
Removes == SelectSeq(appLog, LAMBDA e : e.op = "remove")

\* add_listener: _add_listener(event_type.item_code, callback, deserialize=event_type)
AddListener ==
    /\ Len(Adds) < MaxSubs
    /\ \E c \in SubCodes :
          LET cb == <<"sub", Len(Adds) + 1>>
          IN  /\ response_listener' = add_listener_to(response_listener, c, Entry(cb, FALSE, TRUE))
              /\ appLog' = Append(appLog, [op |-> "add", code |-> c, cb |-> cb,
                                           at |-> Len(dispatched)])
    /\ UNCHANGED <<ccm, buffer, connected, task, wire, devOut, dev, completed, dispatched,
                   raised, future, encLog, decLog, session, frameIn, notified, pending>>

\* line 301, callback in self.response_listener[item_code]: the list holds the
\* tuples (callback, oneoff, deserialize), and a function is equal to no tuple
CallbackIsEntry(cb, e) == FALSE
CallbackInList(lst, cb) == \E i \in DOMAIN lst : CallbackIsEntry(cb, lst[i])

\* lines 302-304: for entry in list: if entry[0] == callback: list.remove(entry)
RECURSIVE RemoveLoop(_, _, _)
RemoveLoop(lst, i, cb) ==
    IF i > Len(lst) THEN lst
    ELSE RemoveLoop(IF lst[i].id = cb THEN ListRemove(lst, lst[i]) ELSE lst, i + 1, cb)

\* _remove_listener
remove_listener_from(listeners, item_code, cb) ==
    IF item_code \in DOMAIN listeners /\ CallbackInList(listeners[item_code], cb)
    THEN [listeners EXCEPT ![item_code] = RemoveLoop(@, 1, cb)]
    ELSE listeners

\* remove_listener(event_type, callback) for a callback that add_listener was
\* given with the same event type
RemoveListener ==
    /\ Len(Removes) < MaxRemoves
    /\ \E k \in DOMAIN Adds :
          /\ response_listener' = remove_listener_from(response_listener, Adds[k].code, Adds[k].cb)
          /\ appLog' = Append(appLog, [op |-> "remove", code |-> Adds[k].code,
                                       cb |-> Adds[k].cb, at |-> Len(dispatched)])
    /\ UNCHANGED <<ccm, buffer, connected, task, wire, devOut, dev, completed, dispatched,
                   raised, future, encLog, decLog, session, frameIn, notified, pending>>

\* wait_for next to the subscribers
SubWait == task["app"].made < MaxSubWaiters /\ WaitFor

NextSubscribe == SubWait \/ Inbound \/ AddListener \/ RemoveListener

SpecSubscribe == InitDispatch /\ [][NextSubscribe]_vars

\* how many times id occurs in the sequence of ids s
RECURSIVE Occurrences(_, _)
Occurrences(s, id) ==
    IF s = <<>> THEN 0
    ELSE (IF Head(s) = id THEN 1 ELSE 0) + Occurrences(Tail(s), id)

\* C11: every persistent subscriber in the list of a message's item code when
\* the message is dispatched is invoked exactly once for it.
C11_SubscribersInvoked ==
    \A j \in DOMAIN dispatched :
        \A i \in DOMAIN dispatched[j].before :
            ~dispatched[j].before[i].oneoff
                => Occurrences(dispatched[j].fired, dispatched[j].before[i].id) = 1

\* C12: a callback that remove_listener was called for is not registered under
\* that item code any more, and no message dispatched after the call invoked it.
C12_RemovedNotInvoked ==
    \A k \in DOMAIN Removes :
        /\ \A i \in DOMAIN response_listener[Removes[k].code] :
              response_listener[Removes[k].code][i].id # Removes[k].cb
        /\ \A j \in DOMAIN dispatched :
              j > Removes[k].at => Occurrences(dispatched[j].fired, Removes[k].cb) = 0

\* the messages whose dispatch called the callback id
FiredBy(id) == {j \in DOMAIN dispatched : Occurrences(dispatched[j].fired, id) > 0}

\* C13: a waiter of lock or get_version that is set was set by a message of
\* its own item code and called for no message of another code; a command has
\* returned only with its waiter set; and a response that finds the command's
\* waiter alone in the list of its code sets it.
C13_CorrelatorIsolation ==
    \A t \in Cmds :
        /\ \A n \in 1..task[t].made :
              /\ future[<<t, n>>].state = "done" =>
                    /\ future[<<t, n>>].result[2] = CmdCode(t)
                    /\ FiredBy(<<t, n>>) # {}
              /\ \A j \in FiredBy(<<t, n>>) : dispatched[j].code = CmdCode(t)
        /\ task[t].pc = "done" => future[task[t].waiter].state = "done"
        /\ \A j \in DOMAIN dispatched :
              (dispatched[j].code = CmdCode(t) /\ Len(dispatched[j].before) = 1
                  /\ dispatched[j].before[1].id[1] = t)
                  => dispatched[j].fired = <<dispatched[j].before[1].id>>

\* lock was sent first and get_version second, the responses came in the
\* other order, and both calls have returned
C13_Witness ==
    /\ task["lock"].pc = "done"
    /\ task["ver"].pc = "done"
    /\ \E a, b \in DOMAIN wire : a < b /\ wire[a].by = "lock" /\ wire[b].by = "ver"
    /\ \E i, j \in DOMAIN dispatched :
          i < j /\ dispatched[i].code = 5 /\ dispatched[j].code = 82

\* the event loop fires the timer of every asyncio.wait_for; nothing else is
\* forced to happen
TimedSpec == Spec /\ \A t \in Cmds : WF_vars(CmdTimeout(t))

\* C14: a command suspended in _send_and_wait does not stay so forever: its
\* response arrives or it leaves with the timeout (or the link's) error.
C14_CommandsTimeOut ==
    \A t \in Cmds :
        (task[t].pc \in {"write", "wait"})
            ~> (\/ task[t].pc \in {"timeout", "error_link"}
                \/ /\ task[t].waiter \in DOMAIN future
                   /\ future[task[t].waiter].state = "done")

\* lock has timed out while it awaited its waiter
C14_Witness ==
    /\ task["lock"].pc = "timeout"
    /\ future[task["lock"].waiter].state = "cancelled"

(***************************************************************************)
(* Retry: lock is called again after it has timed out, against a device    *)
(* that answers late or not at all.                                        *)
(***************************************************************************)
\* the command is called again after its TimeoutError
CmdRetry(t) ==
    /\ task[t].pc = "timeout"
    /\ task[t].calls < MaxCalls + MaxRetries
    /\ response_listener' = RegisterWaiter(response_listener, CmdCode(t), t)
    /\ future' = WithFuture(future, t, CmdCode(t))
    /\ send(t, Envelope(CmdCode(t), CmdPayload(t)), TRUE, WaiterId(t),
            [task EXCEPT ![t] = [@ EXCEPT !.calls = @ + 1, !.made = @ + 1]], ccm)
    /\ UNCHANGED <<buffer, connected, devOut, dev, completed, dispatched, raised,
                   decLog, session, frameIn, appLog, notified, pending>>

NextRetry ==
    \/ ConnStart
    \/ LinkUp
    \/ ConnLogin
    \/ CmdStart("lock")
    \/ CmdTimeout("lock")
    \/ CmdRetry("lock")
    \/ \E t \in {"conn", "lock"} : WriteResume(t)
    \/ \E t \in {"conn", "lock"} : TaskResume(t)
    \/ DevChallenge
    \/ DevSend

SpecRetry == Init /\ [][NextRetry]_vars

\* the call of command t under way is not its first and still waits
Retrying(t) ==
    /\ task[t].calls >= 2
    /\ task[t].pc \in {"write", "wait"}
    /\ future[task[t].waiter].state = "pending"

\* C15: a message with the command's item code that is dispatched while a
\* later call of the command waits sets the waiter of that call.
C15_RetryResolved ==
    [][\A t \in Cmds :
          (/\ Retrying(t)
           /\ Len(dispatched') = Len(dispatched) + 1
           /\ dispatched'[Len(dispatched')].code = CmdCode(t))
              => future'[task[t].waiter].state = "done"]_vars

\* C16: the link writes of one send call are contiguous: between two writes of
\* the same call (same caller, same waiter) there is no write of another call.
C16_OutboundSerialized ==
    \A i, j, k \in DOMAIN wire :
        (i < j /\ j < k /\ wire[i].by = wire[k].by /\ wire[i].w = wire[k].w)
            => (wire[j].by = wire[i].by /\ wire[j].w = wire[i].w)

\* the step completes an inbound encrypted message under a session
Decrypting == ccm # None /\ Len(decLog') = Len(decLog) + 1

\* C17: a step that decrypts a message whose tag fails dispatches nothing,
\* sets no waiter, raises, and leaves the session as it was but for recv_count
\* advanced by one; a step that completes a message correctly encrypted under
\* the session's current receive counter dispatches it.
C17_TagFailureKeepsSession ==
    [][Decrypting =>
          LET msg == completed'[Len(completed')]
              ok == decrypt_ok(ccm, msg.data)
          IN  /\ ccm' = [ccm EXCEPT !.recv_count = @ + 1]
              /\ ~ok => /\ dispatched' = dispatched
                        /\ future' = future
                        /\ response_listener' = response_listener
                        /\ Len(raised') = Len(raised) + 1
                        /\ raised'[Len(raised')] = Len(completed')
              /\ ok => /\ Len(dispatched') = Len(dispatched) + 1
                       /\ dispatched'[Len(dispatched')].n = Len(completed')
                       /\ dispatched'[Len(dispatched')].enc]_vars

\* a session has rejected a damaged message and decrypted and dispatched the
\* next one
C17_Witness ==
    \E i \in DOMAIN CurDec :
        /\ i + 1 \in DOMAIN CurDec
        /\ ~CurDec[i].ok
        /\ CurDec[i + 1].ok
        /\ \E j \in DOMAIN dispatched : dispatched[j].enc /\ dispatched[j].code = 82

(***************************************************************************)
(* The handshake with item-14 messages of several lengths: the random code *)
(* at offsets 2..5, followed by up to MaxExtra further bytes.  The device  *)
(* derives its own key from the random code.                               *)
(***************************************************************************)
Extras == {[j \in 1..n |-> 200 + j] : n \in 0..MaxExtra}

DevChallengeLong ==
    /\ DevReady
    /\ dev.challenge = <<>>
    /\ \E n \in 1..2, extra \in Extras :
          /\ Notify(DevFragments(ChallengeMsg(Challenge(n)) \o extra, FALSE))
          /\ dev' = [dev EXCEPT !.challenge = ChallengeMsg(Challenge(n)), !.n = @ + 1]
    /\ UNCHANGED <<connected, task, wire, encLog, session, frameIn, appLog>>

NextLogin ==
    \/ ConnStart
    \/ LinkUp
    \/ ConnLogin
    \/ \E t \in Cmds : CmdStart(t)
    \/ \E t \in Cmds \cup {"conn"} : WriteResume(t)
    \/ \E t \in Cmds \cup {"conn"} : TaskResume(t)
    \/ DevChallengeLong
    \/ DevSend
    \/ DevDeliver

SpecLogin == Init /\ [][NextLogin]_vars

C18_KeyFromChallengeExact ==
    (ccm # None /\ Len(future[<<"conn", 1>>].result) = 6) =>
        LET key == Slice(CmacDigest(PrivKey, ccm.random_code), 0, DigestLen)
        IN  /\ ccm.token = key
            /\ \A i \in DOMAIN wire :
                  wire[i].by = "conn" => wire[i].seg = <<3, 2>> \o Slice(key, 0, 4)

\* the header the fragmentation rule gives fragment i of n, 1-based
RuleHeader(i, n, encrypted) ==
    IF n = 1 THEN (IF encrypted THEN 5 ELSE 3)
    ELSE IF i = 1 THEN 1
    ELSE IF i < n THEN 0
    ELSE (IF encrypted THEN 4 ELSE 2)

InitInbound ==
    /\ InitCommon
    /\ ccm \in {None, FrameAgent}
    /\ session = IF ccm = None THEN 0 ELSE 1
    /\ connected = TRUE
    /\ dev = [challenge |-> <<>>, send_count |-> 0, n |-> 0, base |-> 0]
    /\ frameIn = [data |-> <<>>, enc |-> FALSE]

\* an item-82 message of len bytes
InboundMsg(len) == <<8, 82>> \o Pattern(len - 2, 0)

PeerEncrypt(plain) ==
    encrypt_and_digest(FrameAgent.token,
                       create_iv(FrameAgent.random_code, dev.send_count), plain)

PeerSend ==
    /\ devOut = <<>>
    /\ dev.n < MaxInbound
    /\ \E len \in {3, 25}, enc \in BOOLEAN, damaged \in BOOLEAN :
          /\ damaged => enc
          /\ LET sent == IF enc THEN PeerEncrypt(InboundMsg(len)) ELSE InboundMsg(len)
             IN  Notify(DevFragments(IF damaged THEN Damaged(sent) ELSE sent, enc))
          /\ dev' = [dev EXCEPT !.n = @ + 1,
                                !.send_count = IF enc THEN @ + 1 ELSE @]
    /\ UNCHANGED <<connected, task, wire, encLog, session, frameIn, appLog>>

NextInbound == PeerSend \/ DevDeliver

SpecInbound == InitInbound /\ [][NextInbound]_vars

\* the step is the notification of a terminal fragment of a message of
\* several fragments (header 2 or 4)
TerminalNotified ==
    /\ devOut # <<>>
    /\ Head(devOut)[1] \in {2, 4}
    /\ devOut' = Tail(devOut)

\* C20: when the processing of a terminal fragment has finished, the
\* reassembly buffer is empty.
C20_BufferCleared ==
    [][TerminalNotified => buffer' = <<>>]_vars

\* the same for the messages that data_handler accepts or drops
C20_BufferClearedNoRaise ==
    [][(TerminalNotified /\ Len(raised') = Len(raised)) => buffer' = <<>>]_vars


(***************************************************************************)
(* Reassembly under any stream of fragments: the link notifies fragments   *)
(* with any header byte 0..6, one after the other, to a transport with or  *)
(* without a session.  The chunks are the two halves of an item-82         *)
(* message, encrypted by the peer when there is a session.                 *)
(***************************************************************************)
StreamBytes == IF session = 0 THEN <<8, 82, 0>> ELSE PeerEncrypt(<<8, 82, 0>>)

StreamChunks ==
    {Slice(StreamBytes, 0, Len(StreamBytes) \div 2),
     SliceFrom(StreamBytes, Len(StreamBytes) \div 2)}

FragArrive ==
    /\ Len(notified) < MaxFrags
    /\ \E h \in 0..6, c \in StreamChunks : Notify(<< <<h>> \o c >>)
    /\ UNCHANGED <<connected, task, wire, dev, encLog, session, frameIn, appLog>>

NextStream == FragArrive

SpecStream == InitInbound /\ [][NextStream]_vars

\* the headers of the fragments notified so far
Headers == [k \in DOMAIN notified |-> notified[k][1]]

\* the chunks of the fragments a..b that notification_handler puts into the
\* buffer (headers 0, 1, 2 and 4), concatenated
RECURSIVE Joined(_, _)
Joined(a, b) ==
    IF a > b THEN <<>>
    ELSE (IF Headers[a] \in {0, 1, 2, 4} THEN SliceFrom(notified[a], 1) ELSE <<>>)
         \o Joined(a + 1, b)

\* fragment s has header 1 and t is the first terminal fragment of a message
\* of several fragments after it, with no other header 1 between them
Restarts(s, t) ==
    /\ s < t
    /\ Headers[s] = 1
    /\ Headers[t] \in {2, 4}
    /\ \A k \in (s + 1)..(t - 1) : Headers[k] \notin {1, 2, 4}

\* the step notifies one fragment, and its header is in the set hs
NotifiedWith(hs) ==
    /\ Len(notified') = Len(notified) + 1
    /\ notified'[Len(notified')][1] \in hs

\* C21: a fragment with header 1 raises nothing and leaves its own chunk as
\* the buffer, whatever the buffer held, and the next terminal fragment hands
\* data_handler the chunks received since that header 1, tagged encrypted
\* exactly when the terminal header is 4.
C21_RestartDiscardsResidue ==
    /\ [][NotifiedWith({1}) =>
            /\ raised' = raised
            /\ buffer' = SliceFrom(notified'[Len(notified')], 1)]_vars
    /\ [](\A j \in DOMAIN completed : \A s \in DOMAIN notified :
            Restarts(s, completed[j].frag) =>
                /\ completed[j].data = Joined(s, completed[j].frag)
                /\ completed[j].enc = (Headers[completed[j].frag] = 4))

\* a residue is in the buffer when header 1 arrives, and 1, 0, 4 completes
C21_Witness ==
    /\ Headers = <<0, 1, 0, 4>>
    /\ Len(completed) = 1
    /\ completed[1].enc
    /\ completed[1].data = SliceFrom(notified[2], 1) \o SliceFrom(notified[3], 1)
                               \o SliceFrom(notified[4], 1)

\* C22: a fragment with header 3 or 5, or with a header outside 0..5, leaves
\* the buffer as it was; the latter also raises nothing and reaches neither
\* data_handler nor the dispatcher; a message of several fragments with such
\* fragments in between is completed from its own fragments only.
C22_BufferUntouched ==
    /\ [][NotifiedWith({3, 5, 6}) => buffer' = buffer]_vars
    /\ [][NotifiedWith({6}) =>
            UNCHANGED <<raised, completed, dispatched, ccm, response_listener, future>>]_vars
    /\ [](\A j \in DOMAIN completed : \A s \in DOMAIN notified :
            (/\ Restarts(s, completed[j].frag)
             /\ \E k \in (s + 1)..(completed[j].frag - 1) : Headers[k] \in {3, 5, 6})
            => completed[j].data = Joined(s, completed[j].frag))

\* a two-fragment message with a single-fragment message and an unknown
\* fragment in between is dispatched whole
C22_Witness ==
    /\ Headers = <<1, 3, 6, 2>>
    /\ Len(completed) = 2
    /\ completed[2].data = <<8, 82, 0>>
    /\ Len(dispatched) = 2
    /\ dispatched[2].code = 82
    /\ buffer = <<>>


(***************************************************************************)
(* Async subscribers: add_listener is given coroutine functions, known as  *)
(* <<"asub", n>>, next to plain functions.  _response_handler awaits such  *)
(* a callback (line 319), so the notification's handler is suspended until *)
(* the callback returns, while the link starts the handlers of the         *)
(* notifications that follow.  The peer sends plaintext item-82 messages   *)
(* of one and of two fragments before any login.                           *)
(***************************************************************************)
AsyncAdds == SelectSeq(Adds, LAMBDA e : IsCoroutine(e.cb))

\* add_listener(Event.LockEvent, callback) with an async callback
AddAsyncListener ==
    /\ Len(AsyncAdds) < MaxAsyncSubs
    /\ LET cb == <<"asub", Len(AsyncAdds) + 1>>
       IN  /\ response_listener' = add_listener_to(response_listener, 82, Entry(cb, FALSE, TRUE))
           /\ appLog' = Append(appLog, [op |-> "add", code |-> 82, cb |-> cb,
                                        at |-> Len(dispatched)])
    /\ UNCHANGED <<ccm, buffer, connected, task, wire, devOut, dev, completed, dispatched,
                   raised, future, encLog, decLog, session, frameIn, notified, pending>>

\* add_listener(Event.LockEvent, callback) with a plain function
AddPlainListener ==
    /\ Len(Adds) - Len(AsyncAdds) < MaxPlainSubs
    /\ LET cb == <<"sub", Len(Adds) - Len(AsyncAdds) + 1>>
       IN  /\ response_listener' = add_listener_to(response_listener, 82, Entry(cb, FALSE, TRUE))
           /\ appLog' = Append(appLog, [op |-> "add", code |-> 82, cb |-> cb,
                                        at |-> Len(dispatched)])
    /\ UNCHANGED <<ccm, buffer, connected, task, wire, devOut, dev, completed, dispatched,
                   raised, future, encLog, decLog, session, frameIn, notified, pending>>

\* wait_for(Event.LockEvent) up to its suspension: a one-off waiter for item 82
AsyncWait ==
    /\ task["app"].made < MaxSubWaiters
    /\ response_listener' = RegisterWaiter(response_listener, 82, "app")
    /\ future' = WithFuture(future, "app", 82)
    /\ task' = [task EXCEPT !["app"].made = @ + 1]
    /\ UNCHANGED <<ccm, buffer, connected, wire, devOut, dev, completed, dispatched,
                   raised, encLog, decLog, session, frameIn, appLog, notified, pending>>

\* the n-th message of the peer, len bytes long
AsyncMsg(len, n) == <<8, 82>> \o Pattern(len - 2, n)

\* the peer sends its next message once the last one is notified whole
PlainSend ==
    /\ devOut = <<>>
    /\ dev.n < MaxAsyncMsgs
    /\ \E len \in {3, 25} : Notify(DevFragments(AsyncMsg(len, dev.n + 1), FALSE))
    /\ dev' = [dev EXCEPT !.n = @ + 1]
    /\ UNCHANGED <<connected, task, wire, encLog, session, frameIn, appLog>>

\* the awaited callback of some suspended handler returns
CallbackReturns == \E p \in DOMAIN pending : HandlerResume(p)

NextAsync ==
    \/ AddAsyncListener
    \/ AddPlainListener
    \/ AsyncWait
    \/ PlainSend
    \/ DevDeliver
    \/ CallbackReturns

SpecAsync == InitDispatch /\ [][NextAsync]_vars

\* the position of the call of callback id in the dispatch d, 0 when it was not called
StampOf(d, id) ==
    IF \E i \in DOMAIN d.fired : d.fired[i] = id
    THEN d.stamp[CHOOSE i \in DOMAIN d.fired : d.fired[i] = id]
    ELSE 0

\* the bytes of the message that the terminal fragment t completes: its own
\* chunk, or the chunks from the message's header-1 fragment on
MessageOf(t) ==
    IF Headers[t] \in {3, 5} THEN SliceFrom(notified[t], 1)
    ELSE Joined(CHOOSE s \in 1..t : Headers[s] = 1 /\ \A k \in (s + 1)..t : Headers[k] # 1, t)

\* C23: every message handed to data_handler is made of all the fragments of
\* that message, and a callback that has been called for two messages was
\* called for them in the order in which their terminal fragments arrived.
C23_InboundOrdered ==
    /\ \A j \in DOMAIN completed :
          completed[j].data = MessageOf(completed[j].frag)
    /\ \A j, k \in DOMAIN dispatched : \A e \in DOMAIN Adds :
          (j < k /\ StampOf(dispatched[j], Adds[e].cb) > 0
                 /\ StampOf(dispatched[k], Adds[e].cb) > 0)
          => StampOf(dispatched[j], Adds[e].cb) < StampOf(dispatched[k], Adds[e].cb)

\* the two halves of C23, each on its own
C23_NoFragmentLost ==
    \A j \in DOMAIN completed :
        completed[j].data = MessageOf(completed[j].frag)

C23_HandlersInOrder ==
    \A j, k \in DOMAIN dispatched : \A e \in DOMAIN Adds :
        (j < k /\ StampOf(dispatched[j], Adds[e].cb) > 0
               /\ StampOf(dispatched[k], Adds[e].cb) > 0)
        => StampOf(dispatched[j], Adds[e].cb) < StampOf(dispatched[k], Adds[e].cb)


\* the link and the peer keep going; nothing makes an awaited callback return
AsyncFairSpec == SpecAsync /\ WF_vars(PlainSend) /\ WF_vars(DevDeliver)

\* some suspended handler has entries behind the awaited one in its list
\* that have not been called for its message
Starved ==
    \E p \in DOMAIN pending :
        \E k \in (pending[p].i + 1)..Len(response_listener[dispatched[pending[p].j].code]) :
            Occurrences(dispatched[pending[p].j].fired,
                        response_listener[dispatched[pending[p].j].code][k].id) = 0

\* C26: the handlers and waiters behind an awaited async callback are
\* eventually called for the message, whether or not that callback returns.
C26_BlockedHandlerBypassed == Starved ~> ~Starved

(***************************************************************************)
(* Outbound messages on the link, read off the gatt_write history.         *)
(***************************************************************************)
\* the write that carried the first fragment of the message wire[k] belongs to
FirstWrite(k) ==
    CHOOSE f \in 1..k :
        /\ wire[f].by = wire[k].by
        /\ wire[f].seg[1] % 2 = 1
        /\ \A g \in (f + 1)..k : ~(wire[g].by = wire[k].by /\ wire[g].seg[1] % 2 = 1)

\* the send counter that CCMAgent.encrypt used for the message of wire[k]
\* (the first write records the counter after the increment of line 21)
NonceOf(k) == wire[FirstWrite(k)].sc - 1

\* wire[k] is the terminal fragment of an encrypted message
EncryptedTerminal(k) == wire[k].enc /\ wire[k].seg[1] \in {4, 5}

\* C24: within the first session, the terminal fragments of the encrypted
\* messages are written in the order of the messages' send counters.
C24_CompleteInNonceOrder ==
    session <= 1 =>
        \A p, q \in DOMAIN wire :
            (p < q /\ EncryptedTerminal(p) /\ EncryptedTerminal(q))
                => NonceOf(p) < NonceOf(q)


\* the persistent subscribers of a listener list, in order
PersistentOf(lst) == SelectSeq(lst, LAMBDA e : ~e.oneoff)

\* C25: the persistent subscribers of the list a dispatch starts with are
\* in the list it ends with, a one-shot waiter it has called is not in the list when it ends,
\* and no one-shot waiter is called twice, in one dispatch or in two.
C25_OneShotRemoved ==
    /\ \A j \in DOMAIN dispatched :
          /\ \A i \in DOMAIN PersistentOf(dispatched[j].before) :
                \E a \in DOMAIN dispatched[j].after :
                    dispatched[j].after[a] = PersistentOf(dispatched[j].before)[i]
          /\ \A i \in DOMAIN dispatched[j].before :
                (/\ dispatched[j].before[i].oneoff
                 /\ Occurrences(dispatched[j].fired, dispatched[j].before[i].id) > 0)
                => \A a \in DOMAIN dispatched[j].after :
                      dispatched[j].after[a].id # dispatched[j].before[i].id
    /\ \A w \in DOMAIN future :
          /\ Cardinality(FiredBy(w)) <= 1
          /\ \A j \in DOMAIN dispatched : Occurrences(dispatched[j].fired, w) <= 1

\* two messages of one item code were dispatched to a list that held a
\* waiter and a subscriber: the first called both, the second the subscriber
C25_Witness ==
    /\ Len(dispatched) = 2
    /\ dispatched[1].code = dispatched[2].code
    /\ Len(dispatched[1].before) = 2
    /\ dispatched[1].before[1].oneoff
    /\ ~dispatched[1].before[2].oneoff
    /\ dispatched[2].fired = <<dispatched[1].before[2].id>>
    /\ dispatched[2].after = <<dispatched[1].before[2]>>


\* C27: while a session object exists, a plaintext message (terminal header
\* 2 or 3) is dropped by data_handler: it reaches no waiter and no
\* subscriber, and the step changes neither counter of the session.
C27_PlaintextDropped ==
    /\ [](\A j \in DOMAIN completed :
            (~completed[j].enc /\ completed[j].session) =>
                /\ completed[j].outcome = "drop"
                /\ \A d \in DOMAIN dispatched : dispatched[d].n # j)
    /\ [][(NotifiedWith({2, 3}) /\ ccm # None) =>
            UNCHANGED <<ccm, dispatched, future, response_listener, raised>>]_vars

\* a plaintext message arrived after _login had built the session and before
\* the login was acknowledged
C27_Witness ==
    /\ task["conn"].pc = "wait"
    /\ ccm # None
    /\ \E j \in DOMAIN completed :
          /\ ~completed[j].enc
          /\ completed[j].session
          /\ completed[j].outcome = "drop"


\* C28: a _send_and_wait that ended in the RuntimeError of send or in a write
\* error of the link has left no waiter of its own in the listener table.
C28_FailedSendUnregisters ==
    \A t \in Cmds \cup {"conn"} :
        (task[t].pc \in {"error_session", "error_link"} /\ task[t].waiter \in DOMAIN future)
            => ~Registered(task[t].waiter)

\* the same for the encrypted send without a session alone
C28_NoSessionUnregisters ==
    \A t \in Cmds :
        (task[t].pc = "error_session" /\ task[t].waiter \in DOMAIN future)
            => ~Registered(task[t].waiter)

\* the same for the write error of the link alone
C28_LinkErrorUnregisters ==
    \A t \in Cmds \cup {"conn"} :
        (task[t].pc = "error_link" /\ task[t].waiter \in DOMAIN future)
            => ~Registered(task[t].waiter)


(***************************************************************************)
(* The custom command of sample.py: the application awaits                 *)
(* client._send_and_wait(item_code, payload, encrypted=True) itself, with  *)
(* no asyncio.wait_for around it.  Item code 5 stands for the code typed   *)
(* in.  The device may answer it or not.  lock(), which has a timeout, is  *)
(* called next to it.                                                      *)
(***************************************************************************)
CustomStart ==
    /\ task["app"].pc = "idle"
    /\ task["app"].calls < MaxCalls
    /\ response_listener' = RegisterWaiter(response_listener, 5, "app")
    /\ future' = WithFuture(future, "app", 5)
    /\ send("app", Envelope(5, <<>>), TRUE, WaiterId("app"),
            [task EXCEPT !["app"] = [@ EXCEPT !.calls = @ + 1, !.made = @ + 1]], ccm)
    /\ UNCHANGED <<buffer, connected, devOut, dev, completed, dispatched, raised,
                   decLog, session, frameIn, appLog, notified, pending>>

\* the device answers the custom command it has seen
DevAnswer ==
    /\ DevReady
    /\ dev.challenge # <<>>
    /\ \E i \in (dev.base + 1)..Len(wire) : wire[i].by = "app"
    /\ Notify(DevFragments(DevEncrypt(ResponseMsg(5)), TRUE))
    /\ dev' = [dev EXCEPT !.send_count = @ + 1, !.n = @ + 1]
    /\ UNCHANGED <<connected, task, wire, encLog, session, frameIn, appLog>>

NextCustom ==
    \/ ConnStart
    \/ LinkUp
    \/ ConnLogin
    \/ CustomStart
    \/ CmdStart("lock")
    \/ CmdTimeout("lock")
    \/ \E t \in {"conn", "app", "lock"} : WriteResume(t)
    \/ \E t \in {"conn", "app", "lock"} : TaskResume(t)
    \/ DevChallenge
    \/ DevSend
    \/ DevAnswer
    \/ DevDeliver

SpecCustom == Init /\ [][NextCustom]_vars

\* the event loop runs every coroutine that can go on, and the link delivers
\* what the device has sent; the device itself owes no answer
CustomStep ==
    \/ LinkUp
    \/ ConnLogin
    \/ \E t \in {"conn", "app", "lock"} : WriteResume(t)
    \/ \E t \in {"conn", "app", "lock"} : TaskResume(t)

\* ... and the timer of lock's asyncio.wait_for fires when lock is still waiting
CustomFairSpec ==
    SpecCustom /\ WF_vars(CustomStep) /\ WF_vars(CmdTimeout("lock")) /\ DeliverFair

\* lock, which is wrapped in asyncio.wait_for, ends in every such behaviour
LockCallEnds ==
    (task["lock"].pc \in {"write", "wait"})
        ~> (task["lock"].pc \in {"done", "timeout", "error_session", "error_link"})

\* C29: a raw _send_and_wait under way ends: with its response, or with an
\* error or a timeout when none arrives.
C29_RawCallTimesOut ==
    (task["app"].pc \in {"write", "wait"})
        ~> (task["app"].pc \in {"done", "timeout", "error_session", "error_link"})


\* C30: a dispatch calls from_bytes at most once; every typed subscriber it
\* calls is given the event object of that one call, and every waiter the
\* raw bytes.
C30_DecodedOnce ==
    \A j \in DOMAIN dispatched :
        /\ dispatched[j].decodes <= 1
        /\ \A i \in DOMAIN dispatched[j].fired :
              dispatched[j].got[i] =
                  IF dispatched[j].fired[i][1] \in {"sub", "asub"} THEN 1 ELSE 0

\* one message was dispatched to two typed subscribers
C30_Witness ==
    \E j \in DOMAIN dispatched :
        /\ Len(dispatched[j].fired) = 2
        /\ dispatched[j].fired[1][1] = "sub"
        /\ dispatched[j].fired[2][1] = "sub"
        /\ dispatched[j].fired[1] # dispatched[j].fired[2]
        /\ dispatched[j].decodes = 1
        /\ dispatched[j].got = <<1, 1>>

=============================================================================
